---- MODULE Spec2Model ----
(***************************************************************************)
(* Model of the admin login screen,                                        *)
(* packages/core/admin/admin/src/pages/Auth/components/Login.tsx.          *)
(*                                                                         *)
(* The state is the component's state (Formik values and errors, the       *)
(* apiError hook, the react-query mutations it started and the one its     *)
(* observer follows) and the collaborators it acts on (the requests on the *)
(* wire, the two web storages, the locale of the store, the router's       *)
(* location).  Strings the code computes on (e-mail addresses, error       *)
(* messages, paths) are sequences of one-character strings.                *)
(***************************************************************************)
EXTENDS Integers, Sequences, FiniteSets, TLC

VARIABLES
    values,      \* Formik values: email, password, rememberMe
    errors,      \* Formik errors: field name -> translation key
    apiError,    \* React state apiError: None (undefined) or Some(text)
    mutation,    \* what useMutation returns: the latest mutation's id (0: none
                 \* yet) and status
    net,         \* requests awaiting their response: mutation id, JSON body posted
    storage,     \* localStorage / sessionStorage entries written by auth
    locale,      \* locale of the redux store
    location,    \* path of the router's history
    redirectTo   \* query.get('redirectTo'): None (null) or Some(text)

vars == <<values, errors, apiError, mutation, net, storage, locale,
          location, redirectTo>>

(***************************************************************************)
(* Bounds                                                                  *)
(***************************************************************************)
MaxSubmits == 2      \* mutations started in one behaviour

(***************************************************************************)
(* Optional values (undefined / null)                                      *)
(***************************************************************************)
None == << >>
Some(x) == <<x>>
IsSome(o) == Len(o) = 1
Get(o) == o[1]

(***************************************************************************)
(* Characters                                                              *)
(***************************************************************************)
Lowers == <<"a","b","c","d","e","f","g","h","i","j","k","l","m",
            "n","o","p","q","r","s","t","u","v","w","x","y","z">>
Uppers == <<"A","B","C","D","E","F","G","H","I","J","K","L","M",
            "N","O","P","Q","R","S","T","U","V","W","X","Y","Z">>
Digits == {"0","1","2","3","4","5","6","7","8","9"}

Range(s) == {s[i] : i \in 1..Len(s)}
LowerSet == Range(Lowers)
UpperSet == Range(Uppers)
IsLower(c) == c \in LowerSet
IsUpper(c) == c \in UpperSet
IsDigit(c) == c \in Digits
IsAlnum(c) == IsLower(c) \/ IsUpper(c) \/ IsDigit(c)

\* String.prototype.toLowerCase / lodash upperFirst, one character
LowerOf == [c \in UpperSet |-> Lowers[CHOOSE i \in DOMAIN Uppers : Uppers[i] = c]]
UpperOf == [c \in LowerSet |-> Uppers[CHOOSE i \in DOMAIN Lowers : Lowers[i] = c]]
LowerChar(c) == IF IsUpper(c) THEN LowerOf[c] ELSE c
UpperChar(c) == IF IsLower(c) THEN UpperOf[c] ELSE c

toLowerCase(s) == [i \in 1..Len(s) |-> LowerChar(s[i])]
upperFirst(s) == [i \in 1..Len(s) |-> IF i = 1 THEN UpperChar(s[i]) ELSE s[i]]

\* JavaScript truthiness of a string
Truthy(s) == Len(s) > 0

(***************************************************************************)
(* lodash camelCase (line 8), on ASCII letters, digits and separators:     *)
(* words() cuts the text at every character that is no letter or digit,    *)
(* between a lower-case letter and an upper-case one, between letters and  *)
(* digits, and before the last capital of a run of capitals that a         *)
(* lower-case letter follows; camelCase lower-cases each word, capitalises *)
(* every word but the first and joins them.                                *)
(***************************************************************************)
WordBreak(s, i, cur) ==
    /\ cur # << >>
    /\ LET p == cur[Len(cur)]
           c == s[i]
       IN \/ IsLower(p) /\ IsUpper(c)
          \/ IsDigit(p) /\ ~IsDigit(c)
          \/ ~IsDigit(p) /\ IsDigit(c)
          \/ IsUpper(p) /\ IsUpper(c) /\ i < Len(s) /\ IsLower(s[i + 1])

RECURSIVE WordsFrom(_, _, _, _)
WordsFrom(s, i, cur, acc) ==
    IF i > Len(s)
    THEN IF cur = << >> THEN acc ELSE Append(acc, cur)
    ELSE IF ~IsAlnum(s[i])
    THEN WordsFrom(s, i + 1, << >>, IF cur = << >> THEN acc ELSE Append(acc, cur))
    ELSE IF WordBreak(s, i, cur)
    THEN WordsFrom(s, i + 1, <<s[i]>>, Append(acc, cur))
    ELSE WordsFrom(s, i + 1, Append(cur, s[i]), acc)

words(s) == WordsFrom(s, 1, << >>, << >>)

RECURSIVE CamelJoin(_, _)
CamelJoin(ws, i) ==
    IF i > Len(ws) THEN << >>
    ELSE (IF i = 1 THEN toLowerCase(ws[i]) ELSE upperFirst(toLowerCase(ws[i])))
         \o CamelJoin(ws, i + 1)

camelCase(s) == CamelJoin(words(s), 1)

(***************************************************************************)
(* decodeURIComponent (line 69): None stands for the URIError it throws on *)
(* a malformed escape.  The escapes known are those the inputs can form.   *)
(***************************************************************************)
PercentCodes == { <<"2", "F", "/">>, <<"2", "5", "%">>, <<"2", "0", " ">> }

RECURSIVE DecodeFrom(_, _, _)
DecodeFrom(s, i, acc) ==
    IF i > Len(s) THEN Some(acc)
    ELSE IF s[i] # "%" THEN DecodeFrom(s, i + 1, Append(acc, s[i]))
    ELSE IF i + 2 > Len(s) THEN None
    ELSE LET hit == {t \in PercentCodes : t[1] = s[i + 1] /\ t[2] = s[i + 2]}
         IN IF hit = {} THEN None
            ELSE DecodeFrom(s, i + 3, Append(acc, (CHOOSE t \in hit : TRUE)[3]))

decodeURIComponent(s) == DecodeFrom(s, 1, << >>)

(***************************************************************************)
(* LOGIN_SCHEMA (lines 33-37).  yup's string().email() on the characters   *)
(* the inputs are made of: one "@", a local part of dot-separated          *)
(* non-empty atoms, a domain of two or more dot-separated non-empty        *)
(* labels and at most one closing dot; the empty string passes email()     *)
(* and fails required().                                                   *)
(***************************************************************************)
RECURSIVE SplitFrom(_, _, _, _, _)
SplitFrom(s, sep, i, cur, acc) ==
    IF i > Len(s) THEN Append(acc, cur)
    ELSE IF s[i] = sep THEN SplitFrom(s, sep, i + 1, << >>, Append(acc, cur))
    ELSE SplitFrom(s, sep, i + 1, Append(cur, s[i]), acc)

Split(s, sep) == SplitFrom(s, sep, 1, << >>, << >>)

IsAtom(a) == a # << >> /\ \A i \in 1..Len(a) : IsAlnum(a[i])

IsEmail(s) ==
    LET parts == Split(s, "@")
    IN /\ Len(parts) = 2
       /\ LET atoms  == Split(parts[1], ".")
              dom    == parts[2]
              labels == Split(IF Len(dom) > 1 /\ dom[Len(dom)] = "."
                              THEN SubSeq(dom, 1, Len(dom) - 1) ELSE dom, ".")
          IN /\ \A i \in 1..Len(atoms) : IsAtom(atoms[i])
             /\ Len(labels) >= 2
             /\ \A i \in 1..Len(labels) : IsAtom(labels[i])

\* translatedErrors.email, translatedErrors.required
ErrEmail == "components.Input.error.validation.email"
ErrRequired == "components.Input.error.validation.required"

\* email() without required(): the empty string passes
EmailErrorNoRequired(email) ==
    IF email # << >> /\ ~IsEmail(email) THEN Some(ErrEmail) ELSE None

EmailError(email) ==
    IF email = << >> THEN Some(ErrRequired)
    ELSE IF ~IsEmail(email) THEN Some(ErrEmail)
    ELSE None

PasswordError(password) ==
    IF password = << >> THEN Some(ErrRequired) ELSE None

\* Formik's error map for a draft: the fields in error, each with its key
Validate(v) ==
    [f \in {g \in {"email", "password"} :
                IsSome(IF g = "email" THEN EmailError(v.email)
                       ELSE PasswordError(v.password))}
        |-> Get(IF f = "email" THEN EmailError(v.email)
                ELSE PasswordError(v.password))]

NoErrors == [f \in {} |-> ErrRequired]

(***************************************************************************)
(* Texts                                                                   *)
(***************************************************************************)
Sentinel == <<"u","s","e","r","n","o","t","a","c","t","i","v","e">>
SomethingWentWrong ==
    <<"S","o","m","e","t","h","i","n","g"," ","w","e","n","t"," ","w","r","o","n","g">>
RootPath == <<"/">>
OopsPath == <<"/","a","u","t","h","/","o","o","p","s">>
LoginPath == <<"/","a","u","t","h","/","l","o","g","i","n">>

(***************************************************************************)
(* Inputs: what the user types, what the server answers, the query string  *)
(***************************************************************************)
EmailInputs ==
    { << >>, <<"a","@","a">>, <<"a","@","a",".","a">> }
PasswordInputs == { << >>, <<"p">> }

InvalidCredentials ==
    <<"I","n","v","a","l","i","d"," ","c","r","e","d","e","n","t","i","a","l","s">>
UserNotActive == <<"U","s","e","r","N","o","t","A","c","t","i","v","e">>
UserNotActiveSpaced == <<"u","s","e","r"," ","n","o","t","-","A","C","T","I","V","E">>

\* err.response?.data?.error?.message: None when the response carries none
\* (a transport error, an error payload without message)
FailureInputs ==
    { None, Some(<< >>), Some(InvalidCredentials),
      Some(UserNotActive), Some(UserNotActiveSpaced) }

\* user.preferedLanguage of the user record the server returns
LanguageInputs == { None, Some("fr") }

\* query.get('redirectTo')
RedirectInputs ==
    { None, Some(<< >>), Some(<<"%","2","F","s">>), Some(<<"%">>) }

\* the storage write of onSuccess that throws (a full or disabled storage)
FaultInputs == { "none", "setToken", "setUserInfo" }

(***************************************************************************)
(* Formik (lines 115-127)                                                  *)
(***************************************************************************)
initialValues == [email |-> << >>, password |-> << >>, rememberMe |-> FALSE]

\* handleChange under validateOnChange={true}: the draft is validated as typed
ChangeEmailValidating(e) ==
    /\ values' = [values EXCEPT !.email = e]
    /\ errors' = Validate([values EXCEPT !.email = e])
    /\ UNCHANGED <<apiError, mutation, net, storage, locale, location, redirectTo>>

\* handleChange: validateOnChange={false}, so the errors stay as they are
ChangeEmail(e) ==
    /\ values' = [values EXCEPT !.email = e]
    /\ UNCHANGED <<errors, apiError, mutation, net, storage, locale,
                   location, redirectTo>>

ChangePassword(p) ==
    /\ values' = [values EXCEPT !.password = p]
    /\ UNCHANGED <<errors, apiError, mutation, net, storage, locale,
                   location, redirectTo>>

\* Checkbox onValueChange (lines 190-193)
ChangeRememberMe(checked) ==
    /\ values' = [values EXCEPT !.rememberMe = checked]
    /\ UNCHANGED <<errors, apiError, mutation, net, storage, locale,
                   location, redirectTo>>

(***************************************************************************)
(* The mutation (lines 48-85)                                              *)
(***************************************************************************)
\* the JSON body of post('/admin/login', body): the variables as they are
PostBody(variables) == variables

\* mutation.isError, mutation.isLoading, mutation.isSuccess
isError == mutation.status = "error"
isLoading == mutation.status = "loading"
isSuccess == mutation.status = "success"

\* the alert of lines 109-113: None when it is not rendered
Banner == IF isError /\ IsSome(apiError) /\ Truthy(Get(apiError))
          THEN apiError ELSE None

\* mutate(values): a new mutation, which the observer follows from now on;
\* its mutation function posts the body (lines 49-52)
Mutate(variables) ==
    LET id == mutation.id + 1
    IN /\ mutation' = [id |-> id, status |-> "loading"]
       /\ net' = net \cup {[id |-> id, body |-> PostBody(variables)]}

\* the submit button (lines 203-205): Formik validates, then calls onSubmit
Submit ==
    /\ errors' = Validate(values)
    /\ IF DOMAIN Validate(values) = {}
       THEN /\ mutation.id < MaxSubmits
            /\ Mutate(values)
       ELSE UNCHANGED <<mutation, net>>
    /\ UNCHANGED <<values, apiError, storage, locale, location, redirectTo>>

\* a result that takes rememberMe from the form as it is when the response comes
MutationDataLive(body, token, user) ==
    [token |-> token, user |-> user, rememberMe |-> values.rememberMe]

\* the mutation function's result (line 54): the response's data and the
\* rememberMe of the body it was called with
MutationData(body, token, user) ==
    [token |-> token, user |-> user, rememberMe |-> body.rememberMe]

\* auth.set of the helper plugin: the web storage a flag selects
Tier(isLocalStorage) == IF isLocalStorage THEN "local" ELSE "session"
setToken(st, token, isLocalStorage) ==
    [st EXCEPT ![Tier(isLocalStorage)].token = Some(token)]
setUserInfo(st, user, isLocalStorage) ==
    [st EXCEPT ![Tier(isLocalStorage)].user = Some(user)]

\* auth.setUserInfo(user): the flag left out, isLocalStorage defaults to false
UserFlagDefault(data) == FALSE

\* the flags onSuccess passes to auth.setToken and auth.setUserInfo (lines 65, 66)
TokenFlag(data) == data.rememberMe
UserFlag(data) == data.rememberMe

\* the test made on user.preferredLanguage, a field the record does not have
HasPreferredLanguage(user) == FALSE

\* line 61: the locale is dispatched when user.preferedLanguage is truthy
HasLanguage(user) ==
    IsSome(user.preferedLanguage) /\ Get(user.preferedLanguage) # ""

\* the query parameter pushed as it is, without decodeURIComponent
RedirectUrlRaw(r) ==
    IF IsSome(r) /\ Truthy(Get(r)) THEN Some(Get(r)) ELSE Some(RootPath)

\* lines 68-69: None when decodeURIComponent throws
RedirectUrl(r) ==
    IF IsSome(r) /\ Truthy(Get(r)) THEN decodeURIComponent(Get(r)) ELSE Some(RootPath)

\* message || 'Something went wrong': the fallback taken for an empty message too
ErrorMessageOr(resp) ==
    IF IsSome(resp) /\ Truthy(Get(resp)) THEN Get(resp) ELSE SomethingWentWrong

\* line 75
ErrorMessage(resp) == IF IsSome(resp) THEN Get(resp) ELSE SomethingWentWrong

\* line 77: camelCase(message).toLowerCase(), tabulated once over the texts
\* onError can be given
Normalize(message) == toLowerCase(camelCase(message))
MessageTexts == {ErrorMessage(resp) : resp \in FailureInputs}
Normalized == [m \in MessageTexts |-> Normalize(m)]
IsUserNotActive(message) == Normalized[message] = Sentinel

\* onError (lines 74-83): what it leaves of the location and of apiError
onError(resp) ==
    LET message == ErrorMessage(resp)
    IN IF IsUserNotActive(message)
       THEN [location |-> OopsPath, apiError |-> apiError]
       ELSE [location |-> location, apiError |-> Some(message)]

Pending(id) == \E r \in net : r.id = id
Request(id) == CHOOSE r \in net : r.id = id
\* the request is answered and the observer never told
SettleUnobserved(id, status) ==
    /\ net' = net \ {Request(id)}
    /\ mutation' = mutation

\* the request is answered; the observer shows the outcome of the mutation
\* it follows, and of no earlier one
Settle(id, status) ==
    /\ net' = net \ {Request(id)}
    /\ mutation' = IF mutation.id = id THEN [mutation EXCEPT !.status = status]
                   ELSE mutation

\* an onError that also signs the user out
OnErrorSigningOut(id, resp) ==
    /\ Pending(id)
    /\ LET r == onError(resp)
       IN /\ location' = r.location
          /\ apiError' = r.apiError
    /\ net' = net \ {Request(id)}
    /\ mutation' = IF mutation.id = id THEN [mutation EXCEPT !.status = "error"]
                   ELSE mutation
    /\ storage' = [local |-> [token |-> None, user |-> None],
                   session |-> [token |-> None, user |-> None]]
    /\ UNCHANGED <<values, errors, locale, redirectTo>>

\* an onError that sends the failed request's body again by itself
OnErrorRetrying(id, resp) ==
    /\ Pending(id)
    /\ LET r == onError(resp)
       IN /\ location' = r.location
          /\ apiError' = r.apiError
    /\ IF mutation.id < MaxSubmits
       THEN /\ net' = (net \ {Request(id)})
                        \cup {[id |-> mutation.id + 1, body |-> Request(id).body]}
            /\ mutation' = [id |-> mutation.id + 1, status |-> "loading"]
       ELSE Settle(id, "error")
    /\ UNCHANGED <<values, errors, storage, locale, redirectTo>>

\* the request of mutation id fails: onError runs, the mutation ends in error
OnError(id, resp) ==
    /\ Pending(id)
    /\ LET r == onError(resp)
       IN /\ location' = r.location
          /\ apiError' = r.apiError
    /\ Settle(id, "error")
    /\ UNCHANGED <<values, errors, storage, locale, redirectTo>>

\* the request of mutation id succeeds: onSuccess runs (lines 57-73).  A
\* write that throws, or decodeURIComponent throwing, ends onSuccess there;
\* react-query then calls onError with that exception, which has no
\* response, and the mutation ends in error.
OnSuccess(id, lang, fault) ==
    /\ Pending(id)
    /\ LET user     == [id |-> id, preferedLanguage |-> lang]
           data     == MutationData(Request(id).body, id, user)
           tokenOk  == fault # "setToken"
           userOk   == tokenOk /\ fault # "setUserInfo"
           url      == RedirectUrl(redirectTo)
           pushOk   == userOk /\ IsSome(url)
           st1      == setToken(storage, data.token, TokenFlag(data))
           st2      == setUserInfo(st1, data.user, UserFlag(data))
           thrown   == onError(None)
       IN /\ locale' = IF HasLanguage(data.user)
                       THEN Get(data.user.preferedLanguage) ELSE locale
          /\ storage' = IF userOk THEN st2 ELSE IF tokenOk THEN st1 ELSE storage
          /\ IF pushOk
             THEN /\ location' = Get(url)
                  /\ apiError' = apiError
                  /\ Settle(id, "success")
             ELSE /\ location' = thrown.location
                  /\ apiError' = thrown.apiError
                  /\ Settle(id, "error")
    /\ UNCHANGED <<values, errors, redirectTo>>

(***************************************************************************)
(* The component after mounting, and its events                            *)
(***************************************************************************)
NoEntry == [token |-> None, user |-> None]

Init ==
    /\ values = initialValues
    /\ errors = NoErrors
    /\ apiError = None
    /\ mutation = [id |-> 0, status |-> "idle"]
    /\ net = {}
    /\ storage = [local |-> NoEntry, session |-> NoEntry]
    /\ locale = "en"
    /\ location = LoginPath
    /\ redirectTo \in RedirectInputs

Next ==
    \/ \E e \in EmailInputs : ChangeEmail(e)
    \/ \E p \in PasswordInputs : ChangePassword(p)
    \/ \E b \in BOOLEAN : ChangeRememberMe(b)
    \/ Submit
    \/ \E id \in 1..MaxSubmits, lang \in LanguageInputs, fault \in FaultInputs :
          OnSuccess(id, lang, fault)
    \/ \E id \in 1..MaxSubmits, resp \in FailureInputs : OnError(id, resp)

Spec == Init /\ [][Next]_vars

\* the network answers every request in the end: each await of lines 50-52
\* resumes, with the response or with an error
Answer(id) ==
    \/ \E lang \in LanguageInputs, fault \in FaultInputs : OnSuccess(id, lang, fault)
    \/ \E resp \in FailureInputs : OnError(id, resp)

\* The liveness specification opens the page without redirectTo or with a
\* malformed one: onSuccess runs to its end under the first and throws in
\* decodeURIComponent under the second.
InitFair == Init /\ redirectTo \in {None, Some(<<"%">>)}

FairSpec ==
    InitFair /\ [][Next]_vars /\ \A id \in 1..MaxSubmits : WF_vars(Answer(id))

(***************************************************************************)
(* Vocabulary of the properties                                            *)
(***************************************************************************)
Ids == 1..MaxSubmits
Tiers == {"local", "session"}
\* the text onError works on for a failure response
TextOf(resp) == IF resp = None THEN SomethingWentWrong ELSE resp[1]
\* the failure responses whose text normalizes to the sentinel
InactiveResponses == {resp \in FailureInputs : Normalize(TextOf(resp)) = Sentinel}
\* the fields of a draft that LOGIN_SCHEMA is to reject
Offending(v) ==
    {f \in {"email", "password"} :
        \/ f = "email" /\ (v.email = << >> \/ ~IsEmail(v.email))
        \/ f = "password" /\ v.password = << >>}
\* the paths the redirect resolution of lines 68-69 can yield
Destinations ==
    {Get(RedirectUrl(r)) : r \in {q \in RedirectInputs : IsSome(RedirectUrl(q))}}
\* this step handles a failure response / a successful response
FailureStep(id, resp) == OnError(id, resp)
SuccessStep(id) ==
    \E lang \in LanguageInputs, fault \in FaultInputs : OnSuccess(id, lang, fault)

(***************************************************************************)
(* C1: at most one login request is in flight at any time; a submit that   *)
(* arrives while a request awaits its response issues no second request.   *)
(* The submit button is never disabled and onSubmit calls mutate without   *)
(* looking at the mutation's state, so two requests can be in flight.      *)
(***************************************************************************)
C1_AtMostOneInFlight == Cardinality(net) <= 1

(***************************************************************************)
(* C2: a submit of a draft whose email is empty or no e-mail address, or   *)
(* whose password is empty, leaves an error on exactly the offending       *)
(* fields and issues no request; a request is issued only by a submit of a *)
(* draft without offending field.                                          *)
(***************************************************************************)
C2_ValidationGatesNetwork ==
    [][ /\ (Submit /\ Offending(values) # {})
            => (DOMAIN errors' = Offending(values) /\ net' = net)
        /\ ~(net' \subseteq net)
            => (Submit /\ Offending(values) = {}) ]_vars

C2_Witness ==
    /\ DOMAIN errors = {"email"}
    /\ errors.email = ErrEmail
    /\ values.email = <<"a", "@", "a">>
    /\ values.password = <<"p">>
    /\ net = {}
    /\ mutation.id = 0

(***************************************************************************)
(* C3: the body of every login request on the wire carries email and       *)
(* password only, never rememberMe.  The code posts the Formik values as   *)
(* they are, rememberMe included.                                          *)
(***************************************************************************)
C3_BodyOnlyEmailPassword == \A r \in net : DOMAIN r.body = {"email", "password"}

(***************************************************************************)
(* C4: whenever a failure response's message normalizes to the sentinel,   *)
(* the flow is on the account-inactive screen afterwards and the error     *)
(* alert is not rendered.  onError returns without clearing apiError, so   *)
(* the text of an earlier failure is rendered.                             *)
(***************************************************************************)
C4_InactiveNoBanner ==
    [][ \A id \in Ids, resp \in FailureInputs :
          (FailureStep(id, resp) /\ resp \in InactiveResponses)
            => (location' = OopsPath /\ Banner' = None) ]_vars

(***************************************************************************)
(* C5: in every reachable state each storage holds a token exactly when it *)
(* holds a user record, and the two belong to the same login.  A throwing  *)
(* second write leaves the token of the first.                             *)
(***************************************************************************)
C5_TokenAndUserTogether ==
    \A t \in Tiers :
        /\ IsSome(storage[t].token) <=> IsSome(storage[t].user)
        /\ IsSome(storage[t].token) /\ IsSome(storage[t].user)
            => Get(storage[t].user).id = Get(storage[t].token)

(***************************************************************************)
(* C6: handling a successful response writes to one storage only, the      *)
(* long-lived one when the body submitted had rememberMe true and the      *)
(* session-scoped one when it had false; when no write throws, that        *)
(* storage holds the token and the user of the response afterwards.        *)
(***************************************************************************)
C6_DurabilityTier ==
    [][ \A r \in net \ net' :
          LET T == IF r.body.rememberMe THEN "local" ELSE "session"
              O == IF r.body.rememberMe THEN "session" ELSE "local"
          IN /\ storage'[O] = storage[O]
             /\ (\E lang \in LanguageInputs : OnSuccess(r.id, lang, "none"))
                   => /\ storage'[T].token = Some(r.id)
                      /\ IsSome(storage'[T].user)
                      /\ Get(storage'[T].user).id = r.id ]_vars

C6_Witness ==
    /\ isSuccess
    /\ storage.local.token = Some(mutation.id)
    /\ IsSome(storage.local.user)
    /\ Get(storage.local.user).id = mutation.id
    /\ storage.session = NoEntry

C8_RedirectTarget ==
    [][ \A id \in Ids, lang \in LanguageInputs, fault \in FaultInputs :
          OnSuccess(id, lang, fault)
            => LET dest == IF redirectTo # None /\ Get(redirectTo) # << >>
                           THEN decodeURIComponent(Get(redirectTo))
                           ELSE Some(RootPath)
               IN /\ location' # location => (IsSome(dest) /\ location' = Get(dest))
                  /\ (fault = "none" /\ IsSome(dest)) => location' = Get(dest) ]_vars

C8_Witness ==
    /\ isSuccess
    /\ redirectTo = Some(<<"%", "2", "F", "s">>)
    /\ location = <<"/", "s">>

(***************************************************************************)
(* C9: handling a failure response leaves both storages and the locale as  *)
(* they were, and the location it leaves does not come from redirectTo;    *)
(* the storages and the locale change only while a successful response is  *)
(* handled.                                                                *)
(***************************************************************************)
C9_FailureLeavesSession ==
    [][ /\ \A id \in Ids, resp \in FailureInputs :
              FailureStep(id, resp)
                => /\ storage' = storage
                   /\ locale' = locale
                   /\ location' \in {location, OopsPath}
        /\ (storage' # storage \/ locale' # locale)
              => \E id \in Ids : SuccessStep(id) ]_vars

C9_Witness ==
    /\ isError
    /\ mutation.id = 2
    /\ net = {}
    /\ storage.session = [token |-> Some(1),
                          user |-> Some([id |-> 1, preferedLanguage |-> Some("fr")])]
    /\ locale = "fr"
    /\ location = OopsPath

(***************************************************************************)
(* C10: under FairSpec, whenever a request is in flight (as it is while    *)
(* the mutation is loading) a state follows in which none is and the       *)
(* mutation has ended in success or in error; and after a failure a submit *)
(* of a valid draft starts a new request.                                  *)
(***************************************************************************)
C10_RunsToCompletion ==
    /\ (net # {}) ~> (net = {} /\ (isSuccess \/ isError))
    /\ [](( /\ isError
            /\ Offending(values) = {}
            /\ mutation.id < MaxSubmits )
          => ENABLED (Submit /\ mutation'.id = mutation.id + 1 /\ isLoading'))

C10_Witness ==
    /\ mutation.id = 2
    /\ isSuccess
    /\ net = {}
    /\ IsSome(apiError)
    /\ location = RootPath

(***************************************************************************)
(* C11: nothing is retried by itself.  A step that puts a request on the   *)
(* wire is a submit of a draft without offending field and puts exactly    *)
(* one there, for a mutation no earlier request was for; the step that     *)
(* handles a response takes that one request off the wire and puts none    *)
(* there.  The requests issued are thus never more than the submits        *)
(* accepted, and no request follows a failure without a new submit.        *)
(***************************************************************************)
C11_NoAutomaticRetry ==
    [][ /\ ~(net' \subseteq net)
            => /\ Submit
               /\ Offending(values) = {}
               /\ net \subseteq net'
               /\ Cardinality(net' \ net) = 1
               /\ \A r \in net' \ net :
                     /\ r.id = mutation.id + 1
                     /\ \A q \in net : q.id < r.id
        /\ \A id \in Ids :
              ((\E resp \in FailureInputs : FailureStep(id, resp)) \/ SuccessStep(id))
                => /\ \E r \in net : r.id = id /\ net' = net \ {r}
                   /\ mutation'.id = mutation.id ]_vars

\* the user has submitted again after a failure: one request, the second
C11_Witness ==
    /\ mutation = [id |-> 2, status |-> "loading"]
    /\ Cardinality(net) = 1
    /\ \A r \in net : r.id = 2
    /\ apiError = Some(InvalidCredentials)
    /\ storage = [local |-> NoEntry, session |-> NoEntry]

(***************************************************************************)
(* C12: handling a successful response sets the locale to the user's       *)
(* preferedLanguage when the user record has one, and leaves the locale    *)
(* as it was when the record has none; this whether or not a later line of *)
(* onSuccess throws.                                                       *)
(***************************************************************************)
C12_LocaleWhenPreferred ==
    [][ \A id \in Ids, lang \in LanguageInputs, fault \in FaultInputs :
          OnSuccess(id, lang, fault)
            => IF lang # None THEN locale' = lang[1] ELSE locale' = locale ]_vars

\* a first login, of a user who prefers French, has succeeded
C12_Witness ==
    /\ mutation = [id |-> 1, status |-> "success"]
    /\ locale = "fr"
    /\ \E t \in Tiers :
          storage[t].user = Some([id |-> 1, preferedLanguage |-> Some("fr")])

(***************************************************************************)
(* C13: while a successful response is handled the effects come in the     *)
(* order locale, token, user, navigation: the user is never stored without *)
(* the token, the token never without the locale set (when the user has a  *)
(* language), the location never changed without both stored; and once     *)
(* both are stored the flow is at a path the redirect resolution yields.   *)
(* decodeURIComponent throws on a malformed redirectTo after both writes,  *)
(* and push is never reached.                                              *)
(***************************************************************************)
C13_EffectOrder ==
    [][ \A id \in Ids, lang \in LanguageInputs, fault \in FaultInputs :
          OnSuccess(id, lang, fault)
            => LET T == IF Request(id).body.rememberMe THEN "local" ELSE "session"
                   tokenDone == storage'[T].token = Some(id)
                   userDone == /\ IsSome(storage'[T].user)
                               /\ Get(storage'[T].user).id = id
               IN /\ userDone => tokenDone
                  /\ (tokenDone /\ lang # None) => locale' = lang[1]
                  /\ location' # location => (tokenDone /\ userDone)
                  /\ (tokenDone /\ userDone) => location' \in Destinations ]_vars

(***************************************************************************)
(* C14: once the response to a request has been handled, the form no       *)
(* longer holds the email or the password that request was submitted with. *)
(* Neither onSuccess nor onError touches the Formik values, and nothing    *)
(* resets the form, so the draft submitted is still there.                 *)
(***************************************************************************)
C14_CredentialsDiscarded ==
    [][ \A r \in net \ net' :
          /\ values'.email # r.body.email
          /\ values'.password # r.body.password ]_vars

(***************************************************************************)
(* C15: a change of a field (email, password or rememberMe) leaves the     *)
(* error map as it was; the error map changes at a submit only, and after  *)
(* a submit it is the errors of the draft submitted and nothing else: an   *)
(* error on each offending field, with the key of its fault, whatever the  *)
(* map held before.                                                        *)
(***************************************************************************)
C15_ValidationOnlyOnSubmit ==
    [][ /\ values' # values => errors' = errors
        /\ errors' # errors => Submit
        /\ Submit
             => /\ DOMAIN errors' = Offending(values)
                /\ \A f \in DOMAIN errors' :
                      errors'[f] = IF values[f] = << >> THEN ErrRequired ELSE ErrEmail
       ]_vars

\* both fields were in error at a submit and have been filled in since: the
\* errors of that submit are still shown
C15_Witness ==
    /\ DOMAIN errors = {"email", "password"}
    /\ values.email = <<"a", "@", "a", ".", "a">>
    /\ values.password = <<"p">>
    /\ values.rememberMe
    /\ mutation.id = 0

(***************************************************************************)
(* C16: the storage a login is written to is chosen by the rememberMe of   *)
(* the body its request was submitted with.  Ticking or unticking the box  *)
(* while the request awaits its response changes neither the request nor   *)
(* the choice: when the response is handled with the box in the other      *)
(* position, the token and the user still go to the storage of the body's  *)
(* flag, and the storage of the box's position is left as it was.          *)
(***************************************************************************)
C16_FlagCapturedAtSubmit ==
    [][ /\ values'.rememberMe # values.rememberMe => net' = net
        /\ \A id \in Ids, lang \in LanguageInputs :
              ( /\ OnSuccess(id, lang, "none")
                /\ values.rememberMe # Request(id).body.rememberMe )
                => LET captured == IF Request(id).body.rememberMe
                                   THEN "local" ELSE "session"
                       current  == IF values.rememberMe THEN "local" ELSE "session"
                   IN /\ storage'[captured].token = Some(id)
                      /\ IsSome(storage'[captured].user)
                      /\ Get(storage'[captured].user).id = id
                      /\ storage'[current] = storage[current] ]_vars

\* submitted with the box unticked, the box ticked since: the login is in
\* the session storage, the request answered
C16_Witness ==
    /\ values.rememberMe
    /\ mutation = [id |-> 1, status |-> "success"]
    /\ net = {}
    /\ storage.session.token = Some(1)
    /\ IsSome(storage.session.user)
    /\ storage.local = NoEntry

(***************************************************************************)
(* C17: the error alert is rendered only when the last attempt has ended   *)
(* in failure and a non-empty error text is set: never while a request     *)
(* awaits its response, never while the mutation is idle, loading or       *)
(* successful, and never once a successful response has been handled.      *)
(* With a second request submitted while the first is in flight, the       *)
(* failure of the second renders the alert while the first still awaits    *)
(* its response; and a successful response whose handling throws ends in   *)
(* onError and renders the alert.                                          *)
(***************************************************************************)
C17_BannerOnlyAfterFailure ==
    /\ [](Banner # None
            => /\ isError
               /\ IsSome(apiError) /\ Get(apiError) # << >>
               /\ net = {})
    /\ [][ \A id \in Ids : SuccessStep(id) => Banner' = None ]_vars

====
